---- MODULE Spec2Model ----
(***************************************************************************)
(* Model of cpp/support/debug_utils.h: the debug registry holding the      *)
(* tokenizer, the MLC_DEBUG_LOGITS environment gate, and DebugPrintLogits,  *)
(* which prints the top-k logits of every sequence of a batch.              *)
(*                                                                         *)
(* Text written to std::cout is modelled as a sequence of lines, each a     *)
(* record of the values streamed into it.  A float is modelled as a small   *)
(* binary floating-point number: an integer count of units of 2^-FracBits   *)
(* whose significand has at most MantBits bits (float has 24), rounded to   *)
(* nearest, ties to even; NaN is a separate value.  Logits are finite.      *)
(***************************************************************************)
EXTENDS Integers, Sequences, FiniteSets

\* ---------------------------------------------------------------- bounds
MaxBatch == 2
MaxVocab == 3
MaxElems == 6
MantBits == 3
FracBits == 5
MaxTokenLen == 2
NumReaders == 2

\* ---------------------------------------------------------------- state
VARIABLES
  env,              \* value of MLC_DEBUG_LOGITS: <<>> when unset, <<value>> when set
  tokenizer,        \* DebugRegistry::Global()->tokenizer
  last_registered,  \* history: argument of the most recent DebugRegisterTokenizer
  pc,               \* "idle", or how the last operation ended
  op,               \* name of the last operation
  call,             \* arguments of the last DebugPrintLogits call
  out,              \* lines the last operation wrote to std::cout
  access,           \* what the last operation touched (tensor, registry)
  ret,              \* value returned by the last DebugGetTokenizer
  token_str,        \* escaping on its own: the decoded token string
  escaped_token,    \* escaping on its own: the escaped string
  esc_pc,           \* escaping on its own: "input" or "escaped"
  refs,             \* threads: reference count of every tokenizer object
  wpc, wtmp,        \* threads: the registering thread and its temporary
  rpc, rptr,        \* threads: every reading thread and the pointer it loaded
  rret              \* threads: the reference every reading thread returned

vars == <<env, tokenizer, last_registered, pc, op, call, out, access, ret,
          token_str, escaped_token, esc_pc, refs, wpc, wtmp, rpc, rptr, rret>>

seq_vars == <<env, tokenizer, last_registered, pc, op, call, out, access, ret>>
seq_vars_but_tokenizer == <<env, last_registered, pc, op, call, out, access, ret>>
esc_vars == <<token_str, escaped_token, esc_pc>>
thr_vars == <<refs, wpc, wtmp, rpc, rptr, rret>>

\* ---------------------------------------------------------------- helpers
Min(a, b) == IF a < b THEN a ELSE b

Pow2(n) == 2 ^ n

Abs(x) == IF x < 0 THEN -x ELSE x

\* ---------------------------------------------------------------- float
\* The float NaN (0.0f / 0 at line 136 when vocab_size is 0).
NaN == -(2 ^ 20)

\* Exponent of the binade holding the magnitude n: the least e >= 0 with
\* n < 2^(MantBits + e).
RECURSIVE Binade(_, _)
Binade(n, e) == IF n < Pow2(MantBits + e) THEN e ELSE Binade(n, e + 1)

\* num / den (den > 0, num >= 0) rounded to the nearest float, ties to even.
RoundMagnitude(num, den) ==
  LET ulp  == Pow2(Binade(num \div den, 0))
      step == den * ulp
      low  == num \div step
      rem  == num - low * step
      up   == IF 2 * rem > step THEN 1
              ELSE IF 2 * rem < step THEN 0
              ELSE low % 2
  IN (low + up) * ulp

RoundFloat(num, den) ==
  IF num < 0 THEN -RoundMagnitude(-num, den) ELSE RoundMagnitude(num, den)

\* a + b on floats.
FloatAdd(a, b) == IF a = NaN \/ b = NaN THEN NaN ELSE RoundFloat(a + b, 1)

\* a / n on floats, n an int converted to float; the sums of this model are
\* finite, so a / 0 arises only as 0.0f / 0.
FloatDiv(a, n) == IF a = NaN \/ n = 0 THEN NaN ELSE RoundFloat(a, n)

\* a > b on floats: false when either is NaN.
FloatGt(a, b) == a # NaN /\ b # NaN /\ a > b

FloatLt(a, b) == a # NaN /\ b # NaN /\ a < b

\* operator<< under std::fixed << std::setprecision(4): the decimal with four
\* digits after the point nearest to the value, as a count of 1/10000 (NaN
\* prints as "nan").
FormatFixed4(x) ==
  IF x = NaN THEN NaN
  ELSE LET den  == Pow2(FracBits)
           mag  == Abs(x) * 10000
           low  == mag \div den
           rem  == mag - low * den
           up   == IF 2 * rem > den THEN 1
                   ELSE IF 2 * rem < den THEN 0
                   ELSE low % 2
       IN IF x < 0 THEN -(low + up) ELSE low + up

\* ---------------------------------------------------------------- gate
Unset == <<>>

EnvValues == {Unset, <<"">>, <<"1">>, <<"verbose">>, <<"VERBOSE">>}

\* The gate stuck open.
AlwaysEnabled(e) == TRUE

\* std::getenv("MLC_DEBUG_LOGITS") != nullptr
IsLogitDebugEnabled(e) == e # Unset

\* debug_level != nullptr && std::string(debug_level) == "verbose"
IsLogitDebugVerbose(e) == e # Unset /\ e[1] = "verbose"

\* ---------------------------------------------------------------- escaping
\* The value of a char holding byte b, char being signed; with an unsigned
\* char the value is b, and the test at line 120 decides the same.
CharValue(b) == IF b >= 128 THEN b - 256 ELSE b

\* std::to_string of a non-negative int: its decimal digits.
RECURSIVE StdToString(_)
StdToString(n) == IF n < 10 THEN <<48 + n>> ELSE StdToString(n \div 10) \o <<48 + (n % 10)>>

\* What one char of token_str appends to escaped_token; b is (unsigned char)c.
EscapeChar(b) ==
  IF b = 10 THEN <<92, 110>>
  ELSE IF b = 9 THEN <<92, 116>>
  ELSE IF b = 13 THEN <<92, 114>>
  ELSE IF CharValue(b) < 32 \/ CharValue(b) > 126 THEN <<92, 120>> \o StdToString(b)
  ELSE <<b>>

RECURSIVE EscapeToken(_)
EscapeToken(s) ==
  IF s = <<>> THEN <<>> ELSE EscapeChar(Head(s)) \o EscapeToken(Tail(s))

\* ---------------------------------------------------------------- registry
\* A default-constructed Tokenizer: the null reference, defined() is false.
Undefined == "undefined"

Tokenizers == {"tokA", "tokB"}

\* A registry that keeps the first tokenizer registered.
KeepFirstRegistered(old, t) == IF old = Undefined THEN t ELSE old

\* DebugRegistry::Global()->tokenizer = tokenizer
DebugRegisterTokenizerSlot(old, t) == t

\* return DebugRegistry::Global()->tokenizer
DebugGetTokenizerValue(slot) == slot

\* tokenizer->IdToToken(token_id): the token's string, or an exception.  tokA
\* decodes id 0 to "a\n" and id 2 to the byte 200 and raises on every other id;
\* tokB decodes id n to the letter 'A' + n.
IdToToken(t, token_id) ==
  IF t = "tokA"
  THEN IF token_id = 0 THEN [raises |-> FALSE, str |-> <<97, 10>>]
       ELSE IF token_id = 2 THEN [raises |-> FALSE, str |-> <<200>>]
       ELSE [raises |-> TRUE, str |-> <<>>]
  ELSE [raises |-> FALSE, str |-> <<65 + token_id>>]

\* ---------------------------------------------------------------- inputs
\* Finite logit values, in units of 2^-FracBits.
Scores == {-20, 24}

\* The default of the parameter top_k.
DefaultTopK == 10

TopKs == {0, 1, 2, DefaultTopK}

Phases == {"PREFILL", "DECODE"}

RequestIdLists == {<<>>, <<"r0">>, <<"r1", "r0">>, <<"a", "b", "c">>}

\* The shapes (batch_size, vocab_size) of the model.
Shapes == {sh \in (0..MaxBatch) \X (0..MaxVocab) : sh[1] * sh[2] <= MaxElems}

\* The logits of shape (batch_size, vocab_size), stored row after row.
Tensors ==
  UNION {{[shape |-> sh, data |-> d] : d \in [1..(sh[1] * sh[2]) -> Scores]} : sh \in Shapes}

\* Tensors that break the precondition of two dimensions: one dimension.
FlatTensors ==
  UNION {{[shape |-> <<n>>, data |-> d] : d \in [1..n -> Scores]} : n \in 0..MaxBatch}

\* std::partial_sort leaves the order of equal logits open: the lower or the
\* higher token id first.
TieOrders == {"low", "high"}

\* What a read outside the buffer does: the process dies, or some value comes
\* back.
OutOfBounds == {[crash |-> TRUE, value |-> 0]} \cup {[crash |-> FALSE, value |-> g] : g \in Scores}

\* The outcomes to consider for a call: a read can leave the buffer only when
\* the tensor has fewer than two dimensions or its rows are empty.
ReadOutcomes(logits) ==
  IF Len(logits.shape) < 2 \/ logits.shape[2] = 0 THEN OutOfBounds
  ELSE {[crash |-> FALSE, value |-> 0]}

\* What reading shape[1] can return: of a tensor of one dimension, whatever
\* follows the shape array.
ShapeOutcomes(logits) == IF Len(logits.shape) < 2 THEN 0..MaxVocab ELSE {0}

\* The tie orders to consider for a call: a disabled call sorts nothing.
SortOutcomes(e) == IF e = <<>> THEN {"low"} ELSE TieOrders

\* ---------------------------------------------------------------- lines
BlankLine ==
  [kind |-> "blank", text |-> "", seq |-> 0, rank |-> 0, token_id |-> 0, logit |-> 0,
   has_token |-> FALSE, token |-> <<>>, max |-> 0, min |-> 0, mean |-> 0]

\* "=== MLC DEBUG LOGITS [" << phase << "] ==="
BannerLine(phase) == [BlankLine EXCEPT !.kind = "banner", !.text = phase]

\* "Request ID: " << req_id << " (seq " << seq_idx << ")"
RequestLine(req_id, seq_idx) ==
  [BlankLine EXCEPT !.kind = "request", !.text = req_id, !.seq = seq_idx]

\* "  [" << i << "] token_id=" << token_id << " logit=" << logit_val, and then
\* " token=\"" << escaped_token << "\"" when tok.has
EntryLine(i, token_id, logit_val, tok) ==
  [BlankLine EXCEPT !.kind = "entry", !.rank = i, !.token_id = token_id,
                    !.logit = FormatFixed4(logit_val),
                    !.has_token = tok.has, !.token = tok.str]

\* "  Stats: max=" << max_logit << " min=" << min_logit << " mean=" << mean_logit
StatsLine(max_logit, min_logit, mean_logit) ==
  [BlankLine EXCEPT !.kind = "stats", !.max = FormatFixed4(max_logit),
                    !.min = FormatFixed4(min_logit), !.mean = FormatFixed4(mean_logit)]

\* "=== END DEBUG LOGITS ==="
EndLine == [BlankLine EXCEPT !.kind = "end"]

\* ---------------------------------------------------------------- reading
\* logits_cpu->shape[k]; a tensor of fewer dimensions has no such entry and
\* the read returns whatever follows the shape array.
ShapeAt(logits, k, garbage) ==
  IF k < Len(logits.shape) THEN logits.shape[k + 1] ELSE garbage

\* logits_data[offset]; outside the buffer the read returns ub.value.
ReadLogit(data, offset, ub) ==
  IF offset < Len(data) THEN data[offset + 1] ELSE ub.value

\* seq_logits[0 .. vocab_size-1] with seq_logits = logits_data + seq_idx * vocab_size
SeqLogits(data, seq_idx, vocab_size, ub) ==
  [i \in 1..vocab_size |-> ReadLogit(data, seq_idx * vocab_size + (i - 1), ub)]

\* Whether reading seq_logits[0 .. n-1] leaves the buffer.
ReadsOutside(data, seq_idx, vocab_size, n) ==
  \E i \in 0..(n - 1) : seq_idx * vocab_size + i >= Len(data)

\* The vector token_logits of (token_id, logit_value) pairs.
TokenLogits(seq_logits) == [i \in 1..Len(seq_logits) |-> <<i - 1, seq_logits[i]>>]

\* ---------------------------------------------------------------- top-k
\* The comparison given to std::partial_sort: a.second > b.second.
LogitGreater(a, b) == FloatGt(a[2], b[2])

\* The pair that std::partial_sort puts first among the pairs of S: none is
\* greater; among equal logits the tie order picks.
First(S, tie) ==
  LET top == {a \in S : \A b \in S : ~LogitGreater(b, a)}
  IN CHOOSE a \in top :
       \A b \in top : IF tie = "low" THEN a[1] <= b[1] ELSE a[1] >= b[1]

RECURSIVE SortedFront(_, _, _)
SortedFront(S, n, tie) ==
  IF n = 0 \/ S = {} THEN <<>>
  ELSE LET a == First(S, tie) IN <<a>> \o SortedFront(S \ {a}, n - 1, tie)

\* Any order of the pairs of S (here by token id): what is left behind middle.
RECURSIVE Rest(_)
Rest(S) ==
  IF S = {} THEN <<>>
  ELSE LET a == CHOOSE x \in S : \A y \in S : x[1] <= y[1] IN <<a>> \o Rest(S \ {a})

\* The vector left as it was built.
Unsorted(token_logits, middle, tie) == token_logits

\* std::partial_sort(begin, begin + middle, end, LogitGreater)
PartialSort(token_logits, middle, tie) ==
  LET S     == {token_logits[i] : i \in 1..Len(token_logits)}
      front == SortedFront(S, middle, tie)
  IN front \o Rest(S \ {front[i] : i \in 1..Len(front)})

\* int print_count = std::min(top_k, vocab_size)
PrintCount(top_k, vocab_size) == Min(top_k, vocab_size)

\* ---------------------------------------------------------------- token text
NoToken == [has |-> FALSE, str |-> <<>>, threw |-> FALSE]

\* No handler: what is raised leaves the block.
Rethrow(raised) == raised

\* try { ... } catch (...) { }: what the handler lets out of the block.
CatchAll(raised) == FALSE

\* Lines 111-127: the token string appended to an entry; threw says that an
\* exception leaves the block.
TokenText(t, has_tokenizer, verbose, token_id) ==
  IF has_tokenizer /\ verbose
  THEN LET r == IdToToken(t, token_id)
       IN IF r.raises THEN [NoToken EXCEPT !.threw = CatchAll(TRUE)]
          ELSE [has |-> TRUE, str |-> EscapeToken(r.str), threw |-> FALSE]
  ELSE NoToken

\* ---------------------------------------------------------------- statistics
\* *std::max_element(seq_logits, seq_logits + vocab_size): the first largest
\* element; of an empty range, the element the end iterator points at.
RECURSIVE MaxFrom(_, _, _)
MaxFrom(s, i, largest) ==
  IF i > Len(s) THEN largest
  ELSE MaxFrom(s, i + 1, IF FloatLt(largest, s[i]) THEN s[i] ELSE largest)

MaxElement(data, seq_idx, vocab_size, ub) ==
  LET s == SeqLogits(data, seq_idx, vocab_size, ub)
  IN IF vocab_size = 0 THEN ReadLogit(data, seq_idx * vocab_size, ub)
     ELSE MaxFrom(s, 2, s[1])

RECURSIVE MinFrom(_, _, _)
MinFrom(s, i, smallest) ==
  IF i > Len(s) THEN smallest
  ELSE MinFrom(s, i + 1, IF FloatLt(s[i], smallest) THEN s[i] ELSE smallest)

MinElement(data, seq_idx, vocab_size, ub) ==
  LET s == SeqLogits(data, seq_idx, vocab_size, ub)
  IN IF vocab_size = 0 THEN ReadLogit(data, seq_idx * vocab_size, ub)
     ELSE MinFrom(s, 2, s[1])

\* std::accumulate(seq_logits, seq_logits + vocab_size, 0.0f)
RECURSIVE Accumulate(_, _, _)
Accumulate(s, i, sum) ==
  IF i > Len(s) THEN sum ELSE Accumulate(s, i + 1, FloatAdd(sum, s[i]))

\* float mean_logit = sum_logits / vocab_size
MeanLogit(s) == FloatDiv(Accumulate(s, 1, 0), Len(s))

\* ---------------------------------------------------------------- report
\* What the function does next: write a line, or stop ("crashed": a read
\* outside the buffer killed the process; "threw": an exception leaves it).
Item(line) == [line |-> line, stop |-> ""]

Stop(how) == [line |-> BlankLine, stop |-> how]

\* (seq_idx < request_ids.size()) ? std::string(request_ids[seq_idx]) : "unknown"
RequestId(request_ids, seq_idx) ==
  IF seq_idx < Len(request_ids) THEN request_ids[seq_idx + 1] ELSE "unknown"

\* The loop of lines 103-129 from entry i on.
RECURSIVE EntryItems(_, _, _, _, _, _)
EntryItems(sorted, i, print_count, t, has_tokenizer, verbose) ==
  IF i >= print_count THEN <<>>
  ELSE LET token_id  == sorted[i + 1][1]
           logit_val == sorted[i + 1][2]
           tok       == TokenText(t, has_tokenizer, verbose, token_id)
       IN IF tok.threw
          THEN <<Item(EntryLine(i, token_id, logit_val, NoToken)), Stop("threw")>>
          ELSE <<Item(EntryLine(i, token_id, logit_val, tok))>>
               \o EntryItems(sorted, i + 1, print_count, t, has_tokenizer, verbose)

\* Lines 131-140: the statistics of the row.
StatsItems(data, seq_idx, vocab_size, verbose, ub) ==
  IF ~verbose THEN <<>>
  ELSE IF ub.crash /\ ReadsOutside(data, seq_idx, vocab_size, IF vocab_size = 0 THEN 1 ELSE vocab_size)
  THEN <<Stop("crashed")>>
  ELSE <<Item(StatsLine(MaxElement(data, seq_idx, vocab_size, ub),
                        MinElement(data, seq_idx, vocab_size, ub),
                        MeanLogit(SeqLogits(data, seq_idx, vocab_size, ub))))>>

\* if (seq_idx < batch_size - 1) std::cout << std::endl
SeparatorItems(seq_idx, batch_size) ==
  IF seq_idx < batch_size - 1 THEN <<Item(BlankLine)>> ELSE <<>>

\* The locals of a call that its loop reads: c.data (logits_data),
\* c.batch_size, c.vocab_size, c.request_ids, c.top_k, c.tokenizer,
\* c.has_tokenizer, c.verbose, and the outcomes c.tie and c.ub.
\* One pass of the loop of lines 81-145.
RowItems(c, seq_idx) ==
  LET header == Item(RequestLine(RequestId(c.request_ids, seq_idx), seq_idx))
      sorted == PartialSort(TokenLogits(SeqLogits(c.data, seq_idx, c.vocab_size, c.ub)),
                            Min(c.top_k, c.vocab_size), c.tie)
  IN IF c.ub.crash /\ ReadsOutside(c.data, seq_idx, c.vocab_size, c.vocab_size)
     THEN <<header, Stop("crashed")>>
     ELSE <<header>>
          \o EntryItems(sorted, 0, PrintCount(c.top_k, c.vocab_size), c.tokenizer,
                        c.has_tokenizer, c.verbose)
          \o StatsItems(c.data, seq_idx, c.vocab_size, c.verbose, c.ub)
          \o SeparatorItems(seq_idx, c.batch_size)

\* The loop of lines 81-145 from row seq_idx on.
RECURSIVE LoopItems(_, _)
LoopItems(c, seq_idx) ==
  IF seq_idx >= c.batch_size THEN <<>>
  ELSE RowItems(c, seq_idx) \o LoopItems(c, seq_idx + 1)

\* Lines 79-147: everything an enabled call does once the shape is read.
ReportItems(c, phase) ==
  <<Item(BlankLine), Item(BannerLine(phase))>>
  \o LoopItems(c, 0)
  \o <<Item(EndLine), Item(BlankLine)>>

\* The lines written before the first stop, and how the function ends.
RECURSIVE Emitted(_, _, _)
Emitted(items, i, lines) ==
  IF i > Len(items) THEN [lines |-> lines, end |-> "returned"]
  ELSE IF items[i].stop # "" THEN [lines |-> lines, end |-> items[i].stop]
  ELSE Emitted(items, i + 1, Append(lines, items[i].line))

NoAccess == [host_copies |-> 0, shape_reads |-> 0, data_reads |-> FALSE, registry_reads |-> 0]

NoCall == [logits |-> [shape |-> <<0, 0>>, data |-> <<>>], phase |-> "",
           request_ids |-> <<>>, top_k |-> 0, copy_fails |-> FALSE]

\* DebugPrintLogits(logits, phase, request_ids, top_k).  copy_fails: CopyTo
\* throws; garbage: what a read behind the shape array returns; tie, ub: see
\* TieOrders and OutOfBounds.
DebugPrintLogits(logits, phase, request_ids, top_k, copy_fails, garbage, tie, ub) ==
  LET batch_size == ShapeAt(logits, 0, garbage)
      vocab_size == ShapeAt(logits, 1, garbage)
      verbose    == IsLogitDebugVerbose(env)
      t          == DebugGetTokenizerValue(tokenizer)
      c          == [data |-> logits.data, batch_size |-> batch_size,
                     vocab_size |-> vocab_size, request_ids |-> request_ids,
                     top_k |-> top_k, tokenizer |-> t, has_tokenizer |-> t # Undefined,
                     verbose |-> verbose, tie |-> tie, ub |-> ub]
      r          == Emitted(ReportItems(c, phase), 1, <<>>)
  IN /\ op' = "DebugPrintLogits"
     /\ call' = [logits |-> logits, phase |-> phase, request_ids |-> request_ids,
                 top_k |-> top_k, copy_fails |-> copy_fails]
     /\ ret' = Undefined
     /\ IF ~IsLogitDebugEnabled(env)
        THEN /\ pc' = "returned"
             /\ out' = <<>>
             /\ access' = NoAccess
        ELSE IF copy_fails
        THEN /\ pc' = "threw"
             /\ out' = <<>>
             /\ access' = [NoAccess EXCEPT !.host_copies = 1]
        ELSE IF ub.crash /\ Len(logits.shape) < 2
        THEN /\ pc' = "crashed"
             /\ out' = <<>>
             /\ access' = [NoAccess EXCEPT !.host_copies = 1, !.shape_reads = 2]
        ELSE /\ pc' = r.end
             /\ out' = r.lines
             /\ access' = [host_copies |-> 1, shape_reads |-> 2, registry_reads |-> 1,
                           data_reads |-> batch_size >= 1 /\ (vocab_size >= 1 \/ verbose)]
     /\ UNCHANGED <<env, tokenizer, last_registered>>

\* ---------------------------------------------------------------- actions
\* The process environment changes between calls.
Setenv ==
  /\ pc = "idle"
  /\ \E v \in EnvValues : env' = v
  /\ UNCHANGED <<tokenizer, last_registered, pc, op, call, out, access, ret>>
  /\ UNCHANGED <<esc_vars, thr_vars>>

\* DebugRegisterTokenizer(t)
Register ==
  /\ pc = "idle"
  /\ \E t \in Tokenizers \cup {Undefined} :
       /\ tokenizer' = DebugRegisterTokenizerSlot(tokenizer, t)
       /\ last_registered' = t
  /\ pc' = "returned"
  /\ op' = "DebugRegisterTokenizer"
  /\ ret' = Undefined
  /\ UNCHANGED <<env, call, out, access>>
  /\ UNCHANGED <<esc_vars, thr_vars>>

\* DebugGetTokenizer()
Get ==
  /\ pc = "idle"
  /\ ret' = DebugGetTokenizerValue(tokenizer)
  /\ pc' = "returned"
  /\ op' = "DebugGetTokenizer"
  /\ access' = [NoAccess EXCEPT !.registry_reads = 1]
  /\ UNCHANGED <<env, tokenizer, last_registered, call, out>>
  /\ UNCHANGED <<esc_vars, thr_vars>>

\* The inference engine calls DebugPrintLogits with a tensor of two
\* dimensions; the copy to the host succeeds.
Report ==
  /\ pc = "idle"
  /\ \E logits \in Tensors, phase \in Phases, request_ids \in RequestIdLists,
        top_k \in TopKs :
       \E tie \in SortOutcomes(env), ub \in ReadOutcomes(logits) :
         DebugPrintLogits(logits, phase, request_ids, top_k, FALSE, 0, tie, ub)
  /\ UNCHANGED <<esc_vars, thr_vars>>

\* The same call with a tensor of one dimension, or a copy that fails.
ReportFault ==
  /\ pc = "idle"
  /\ \E logits \in Tensors \cup FlatTensors, phase \in Phases,
        request_ids \in RequestIdLists, top_k \in TopKs, copy_fails \in BOOLEAN :
       /\ copy_fails \/ logits \in FlatTensors
       /\ \E garbage \in ShapeOutcomes(logits), tie \in SortOutcomes(env),
             ub \in ReadOutcomes(logits) :
            DebugPrintLogits(logits, phase, request_ids, top_k, copy_fails, garbage, tie, ub)
  /\ UNCHANGED <<esc_vars, thr_vars>>

\* The caller goes on after an operation returned.
Resume ==
  /\ pc = "returned"
  /\ pc' = "idle"
  /\ op' = ""
  /\ call' = NoCall
  /\ out' = <<>>
  /\ access' = NoAccess
  /\ ret' = Undefined
  /\ UNCHANGED <<env, tokenizer, last_registered>>
  /\ UNCHANGED <<esc_vars, thr_vars>>

\* No operation has run.
InitCall ==
  /\ pc = "idle"
  /\ op = ""
  /\ call = NoCall
  /\ out = <<>>
  /\ access = NoAccess
  /\ ret = Undefined

\* static DebugRegistry reg: the tokenizer starts undefined.
InitSeq ==
  /\ env \in EnvValues
  /\ tokenizer = Undefined
  /\ last_registered = Undefined
  /\ InitCall

InitEsc == token_str = <<>> /\ escaped_token = <<>> /\ esc_pc = "input"

InitThr ==
  /\ refs = <<>> /\ wpc = "" /\ wtmp = Undefined
  /\ rpc = <<>> /\ rptr = <<>> /\ rret = <<>>

Init == InitSeq /\ InitEsc /\ InitThr

Next == Setenv \/ Register \/ Get \/ Report \/ Resume

Spec == Init /\ [][Next]_vars

NextFault == Next \/ ReportFault

SpecFault == Init /\ [][NextFault]_vars

\* ---------------------------------------------------------------- escaping alone
\* Bytes of every class that lines 117-121 tell apart.
EscBytes == {0, 9, 10, 13, 31, 32, 65, 92, 126, 127, 128, 200, 255}

TokenStrings == UNION {[1..n -> EscBytes] : n \in 0..MaxTokenLen}

InitEscape ==
  /\ InitSeq /\ env = Unset /\ InitThr
  /\ token_str \in TokenStrings
  /\ escaped_token = <<>>
  /\ esc_pc = "input"

\* The loop of lines 115-122 on token_str.
Escape ==
  /\ esc_pc = "input"
  /\ escaped_token' = EscapeToken(token_str)
  /\ esc_pc' = "escaped"
  /\ UNCHANGED <<token_str, seq_vars, thr_vars>>

SpecEscape == InitEscape /\ [][Escape]_vars

\* ---------------------------------------------------------------- threads
\* One thread runs DebugRegisterTokenizer(tokB) while NumReaders threads run
\* DebugGetTokenizer; nothing orders them.  Tokenizer is a reference-counted
\* handle: copying one loads the pointer and then increments the count of the
\* object, assigning one copies the right side into a temporary, swaps it
\* with the slot and releases what the slot held; an object whose count
\* reaches 0 is destroyed.
Readers == 1..NumReaders

Dangling == "dangling"

InitThreads ==
  /\ env = Unset /\ InitCall /\ InitEsc
  /\ wpc = "copy" /\ wtmp = Undefined
  /\ rpc = [i \in Readers |-> "load"]
  /\ rptr = [i \in Readers |-> Undefined]
  /\ rret = [i \in Readers |-> Undefined]
  /\ \E old \in {Undefined, "tokA"}, owners \in 1..2 :
       /\ tokenizer = old
       /\ last_registered = old
       /\ refs = [t \in Tokenizers |->
                    IF t = "tokB" THEN 1 ELSE IF old = "tokA" THEN owners ELSE 0]

\* Registering thread, ObjectPtr(other): the temporary takes a reference.
WCopy ==
  /\ wpc = "copy"
  /\ wtmp' = "tokB"
  /\ refs' = [refs EXCEPT !["tokB"] = @ + 1]
  /\ wpc' = "swap"
  /\ UNCHANGED <<tokenizer, rpc, rptr, rret, seq_vars_but_tokenizer, esc_vars>>

\* Registering thread, swap(*this): the slot and the temporary trade pointers.
WSwap ==
  /\ wpc = "swap"
  /\ tokenizer' = wtmp
  /\ wtmp' = tokenizer
  /\ wpc' = "release"
  /\ UNCHANGED <<refs, rpc, rptr, rret, seq_vars_but_tokenizer, esc_vars>>

\* Registering thread, the temporary dies: what the slot held loses a
\* reference, and is destroyed with its last one.
WRelease ==
  /\ wpc = "release"
  /\ refs' = IF wtmp = Undefined THEN refs ELSE [refs EXCEPT ![wtmp] = @ - 1]
  /\ wtmp' = Undefined
  /\ wpc' = "done"
  /\ UNCHANGED <<tokenizer, rpc, rptr, rret, seq_vars_but_tokenizer, esc_vars>>

\* Reading thread i, the copy constructor loads the pointer of the slot.
RLoad(i) ==
  /\ rpc[i] = "load"
  /\ rptr' = [rptr EXCEPT ![i] = tokenizer]
  /\ rpc' = [rpc EXCEPT ![i] = "incref"]
  /\ UNCHANGED <<tokenizer, refs, wpc, wtmp, rret, seq_vars_but_tokenizer, esc_vars>>

\* Reading thread i, the copy constructor increments the count of the object
\* it loaded and returns; if the object was destroyed in between, the
\* reference returned is dangling.
RIncRef(i) ==
  /\ rpc[i] = "incref"
  /\ rpc' = [rpc EXCEPT ![i] = "returned"]
  /\ IF rptr[i] = Undefined
     THEN rret' = [rret EXCEPT ![i] = Undefined] /\ refs' = refs
     ELSE IF refs[rptr[i]] = 0
     THEN rret' = [rret EXCEPT ![i] = Dangling] /\ refs' = refs
     ELSE /\ rret' = [rret EXCEPT ![i] = rptr[i]]
          /\ refs' = [refs EXCEPT ![rptr[i]] = @ + 1]
  /\ UNCHANGED <<tokenizer, wpc, wtmp, rptr, seq_vars_but_tokenizer, esc_vars>>

NextThreads ==
  \/ WCopy \/ WSwap \/ WRelease
  \/ \E i \in Readers : RLoad(i)
  \/ \E i \in Readers : RIncRef(i)

SpecThreads == InitThreads /\ [][NextThreads]_vars

\* ================================================================ properties
\* The last operation was a DebugPrintLogits call.
Reported == op = "DebugPrintLogits"

CallBatch == call.logits.shape[1]

CallVocab == call.logits.shape[2]

\* Row r of the tensor of the call.
CallRow(r) == [i \in 1..CallVocab |-> call.logits.data[r * CallVocab + i]]

\* The row whose block holds line i: a block starts at its "Request ID" line.
BlockOf(i) == Cardinality({j \in 1..i : out[j].kind = "request"}) - 1

\* The lines of kind k in the block of row r, in the order written.
RECURSIVE RowLinesFrom(_, _, _)
RowLinesFrom(i, r, k) ==
  IF i > Len(out) THEN <<>>
  ELSE (IF out[i].kind = k /\ BlockOf(i) = r THEN <<out[i]>> ELSE <<>>)
       \o RowLinesFrom(i + 1, r, k)

RowLines(r, k) == RowLinesFrom(1, r, k)

\* The positions in out of the lines of kind k in the block of row r.
RowPositions(r, k) == {i \in 1..Len(out) : out[i].kind = k /\ BlockOf(i) = r}

\* The "Request ID" lines, in the order written.
RECURSIVE RequestLinesFrom(_)
RequestLinesFrom(i) ==
  IF i > Len(out) THEN <<>>
  ELSE (IF out[i].kind = "request" THEN <<out[i]>> ELSE <<>>) \o RequestLinesFrom(i + 1)

\* ---------------------------------------------------------------- C1
\* C1: a DebugPrintLogits call made while MLC_DEBUG_LOGITS is unset returns
\* without copying the tensor, reading its shape or elements, reading the
\* registry or writing anything, whatever the arguments are and whatever the
\* variable held before.
C1_DisabledIsNoOp ==
  (Reported /\ env = Unset) =>
    /\ pc = "returned"
    /\ out = <<>>
    /\ access = NoAccess

\* A disabled call on a tensor with rows, a tokenizer being registered.
C1_Witness ==
  /\ Reported /\ env = Unset /\ pc = "returned"
  /\ call.logits.shape[1] >= 1 /\ Len(call.logits.data) >= 1
  /\ tokenizer # Undefined

\* ---------------------------------------------------------------- C2
\* C2: every enabled DebugPrintLogits call returns normally: no exception
\* leaves it and the process does not die in it.
C2_AlwaysReturns == (Reported /\ env # Unset) => pc = "returned"

C4_BlockPerRow ==
  (Reported /\ env # Unset) =>
    LET R == RequestLinesFrom(1)
    IN /\ Len(R) = CallBatch
       /\ \A i \in 1..Len(R) :
            /\ R[i].seq = i - 1
            /\ R[i].text = IF i <= Len(call.request_ids)
                           THEN call.request_ids[i] ELSE "unknown"

\* ---------------------------------------------------------------- C5
\* An entry was written for a token whose lookup raises.
LookupRaised ==
  \E i \in 1..Len(out) : out[i].kind = "entry" /\ IdToToken(tokenizer, out[i].token_id).raises

\* C5: when in a verbose call with a tokenizer registered the lookup raises
\* for a token written, the call still returns; the entry of that token has
\* no token string; every other entry has its escaped token string; every
\* row has its request line, its min(top_k, vocab_size) entries and then its
\* statistics line; and the ending banner is written.
C5_LookupFailureAbsorbed ==
  (Reported /\ env = <<"verbose">> /\ tokenizer # Undefined /\ LookupRaised) =>
    /\ pc = "returned"
    /\ Len(RequestLinesFrom(1)) = CallBatch
    /\ \A r \in 0..(CallBatch - 1) :
         /\ Len(RowLines(r, "entry")) = Min(call.top_k, CallVocab)
         /\ Cardinality(RowPositions(r, "stats")) = 1
         /\ \A i \in RowPositions(r, "entry"), j \in RowPositions(r, "stats") : i < j
    /\ \A i \in 1..Len(out) :
         out[i].kind = "entry" =>
           LET d == IdToToken(tokenizer, out[i].token_id)
           IN IF d.raises THEN ~out[i].has_token /\ out[i].token = <<>>
              ELSE out[i].has_token /\ out[i].token = EscapeToken(d.str)
    /\ Len(out) >= 2 /\ out[Len(out) - 1].kind = "end" /\ out[Len(out)].kind = "blank"

\* With tokA, whose lookup raises on token 1: the first row writes token 1
\* and then token 0, and a second row follows.
C5_Witness ==
  /\ Reported /\ env = <<"verbose">> /\ tokenizer = "tokA" /\ pc = "returned"
  /\ CallBatch = 2 /\ CallVocab = 2 /\ call.top_k = 2
  /\ call.logits.data = <<-20, 24, 24, -20>>
  /\ LookupRaised
  /\ \E i \in 1..Len(out) : out[i].kind = "entry" /\ out[i].has_token

\* ---------------------------------------------------------------- C6
HexDigit(d) == IF d < 10 THEN 48 + d ELSE 87 + d

\* The escape of one byte as the claim has it: two hexadecimal digits.
HexEscapeChar(b) ==
  IF b = 10 THEN <<92, 110>>
  ELSE IF b = 9 THEN <<92, 116>>
  ELSE IF b = 13 THEN <<92, 114>>
  ELSE IF b < 32 \/ b > 126 THEN <<92, 120, HexDigit(b \div 16), HexDigit(b % 16)>>
  ELSE <<b>>

RECURSIVE HexEscape(_)
HexEscape(str) ==
  IF str = <<>> THEN <<>> ELSE HexEscapeChar(Head(str)) \o HexEscape(Tail(str))

\* C6: the escaped string is the concatenation, byte by byte, of \n, \t, \r,
\* \x and two hexadecimal digits, or the byte itself when printable, and so
\* holds only bytes in 32..126.
C6_EscapeIsHex ==
  esc_pc = "escaped" =>
    /\ escaped_token = HexEscape(token_str)
    /\ \A i \in 1..Len(escaped_token) : escaped_token[i] \in 32..126

\* ---------------------------------------------------------------- C7
\* C7: in an enabled call where the variable is not exactly "verbose" no
\* statistics line and no token string is written; in a verbose call every
\* row has exactly one statistics line, after its entries, and an entry has a
\* token string only if a tokenizer is registered and its lookup succeeds.
C7_VerbosityGates ==
  (Reported /\ env # Unset) =>
    /\ env # <<"verbose">> =>
         \A i \in 1..Len(out) : out[i].kind # "stats" /\ ~out[i].has_token
    /\ env = <<"verbose">> =>
         /\ \A r \in 0..(CallBatch - 1) :
              /\ Cardinality(RowPositions(r, "stats")) = 1
              /\ \A i \in RowPositions(r, "entry"), j \in RowPositions(r, "stats") : i < j
         /\ \A i \in 1..Len(out) :
              out[i].has_token =>
                tokenizer # Undefined /\ ~IdToToken(tokenizer, out[i].token_id).raises

\* ---------------------------------------------------------------- C8
RECURSIVE SumFrom(_, _)
SumFrom(row, i) == IF i > Len(row) THEN 0 ELSE row[i] + SumFrom(row, i + 1)

\* num / den (den > 0) as a decimal with four digits after the point, the
\* nearest one, as a count of 1/10000; num counts units of 2^-FracBits.
Decimal4(num, den) ==
  LET d    == den * Pow2(FracBits)
      mag  == Abs(num) * 10000
      low  == mag \div d
      rem  == mag - low * d
      up   == IF 2 * rem > d THEN 1 ELSE IF 2 * rem < d THEN 0 ELSE low % 2
  IN IF num < 0 THEN -(low + up) ELSE low + up

\* C8: every statistics line written reports the largest and the smallest of
\* the vocab_size logits of its row and their sum divided by vocab_size, and
\* min <= mean <= max.
C8_Statistics ==
  Reported =>
    \A r \in 0..(CallBatch - 1) :
      LET S   == RowLines(r, "stats")
          row == CallRow(r)
      IN \A i \in 1..Len(S) :
           /\ \E t \in 1..CallVocab :
                S[i].max = FormatFixed4(row[t]) /\ \A u \in 1..CallVocab : row[u] <= row[t]
           /\ \E t \in 1..CallVocab :
                S[i].min = FormatFixed4(row[t]) /\ \A u \in 1..CallVocab : row[u] >= row[t]
           /\ CallVocab > 0 /\ S[i].mean = Decimal4(SumFrom(row, 1), CallVocab)
           /\ S[i].mean # NaN /\ S[i].min <= S[i].mean /\ S[i].mean <= S[i].max

\* ---------------------------------------------------------------- C9
\* C9: the registry holds the argument of the most recent
\* DebugRegisterTokenizer call, or the undefined tokenizer if there was none:
\* DebugGetTokenizer returns it and no operation but DebugRegisterTokenizer,
\* which always returns, changes it.
C9_LastRegisteredIsCurrent ==
  /\ tokenizer = last_registered
  /\ op = "DebugGetTokenizer" => pc = "returned" /\ ret = last_registered
  /\ op = "DebugRegisterTokenizer" => pc = "returned"

\* DebugGetTokenizer returned tokB.
C9_Witness == op = "DebugGetTokenizer" /\ pc = "returned" /\ ret = "tokB"

\* ---------------------------------------------------------------- C10
\* C10: with DebugRegisterTokenizer(tokB) running beside it, every
\* DebugGetTokenizer returns the tokenizer stored before or tokB, never a
\* reference to a destroyed object.
C10_ReadersSeeOldOrNew ==
  \A i \in DOMAIN rpc :
    rpc[i] = "returned" => rret[i] \in {last_registered, "tokB"}

====
